---- MODULE Spec2Model ----
(***************************************************************************)
(* A model of the ETL pipeline: configuration (config.py), the S3 gateway  *)
(* (s3_client.py), the transformer (transformer.py), the orchestrator      *)
(* (etl_processor.py) and the entry point (main.py).                       *)
(*                                                                         *)
(* Text is a sequence of lexical tokens (punctuation, string literals,     *)
(* number literals, whitespace), a blob is such a sequence, and a JSON     *)
(* value is a tagged pair <<tag, payload>>.                                *)
(***************************************************************************)
EXTENDS Naturals, Sequences, FiniteSets, TLC

\* ---------------------------------------------------------------- bounds
\* Longest JSON array enumerated as a source document.
MaxBatch == 2
\* Process invocations (runs of main) in one behaviour.
MaxRuns == 2

\* ------------------------------------------------------------ JSON values
JNull == <<"null", "null">>
JTrue == <<"bool", "true">>
JNum(r) == <<"num", r>>
JStr(s) == <<"str", s>>
JArr(elems) == <<"arr", elems>>
\* A dict: its (key, value) pairs in insertion order, keys distinct.
JObj(pairs) == <<"obj", pairs>>

Tag(v) == v[1]
Payload(v) == v[2]

\* isinstance(data, dict) / isinstance(data, list)
IsDict(v) == Tag(v) = "obj"
IsList(v) == Tag(v) = "arr"

\* type(data) as the f-string of extract prints it.
TypeName(v) ==
  CASE Tag(v) = "obj" -> "<class 'dict'>"
    [] Tag(v) = "arr" -> "<class 'list'>"
    [] Tag(v) = "str" -> "<class 'str'>"
    [] Tag(v) = "num" -> "<class 'int'>"
    [] Tag(v) = "bool" -> "<class 'bool'>"
    [] OTHER -> "<class 'NoneType'>"

\* type(v).__name__, as an AttributeError names the type.
TypeWord(v) ==
  CASE Tag(v) = "obj" -> "dict"
    [] Tag(v) = "arr" -> "list"
    [] Tag(v) = "str" -> "str"
    [] Tag(v) = "num" -> "int"
    [] Tag(v) = "bool" -> "bool"
    [] OTHER -> "NoneType"

\* ------------------------------------------------------------------ text
NL == "\n"
SP == " "
Whitespace == {NL, SP}
\* A byte that is not valid UTF-8: bytes.decode("utf-8") raises on it.
BadByte == "\\xff"

\* A text cut short by one token.
Truncated(t) == SubSeq(t, 1, Len(t) - 1)

\* String literals of the text, with the str each denotes.
StrTokens == {"\"a\"", "\"b\"", "\"t1\"", "\"trip_id\"", "\"miles\"",
              "\"not an object or array\""}
\* The str a string literal denotes (py_scanstring), and the literal json.dumps
\* writes for a str (encode_basestring_ascii).
StrValue(t) ==
  CASE t = "\"a\"" -> "a"
    [] t = "\"b\"" -> "b"
    [] t = "\"t1\"" -> "t1"
    [] t = "\"trip_id\"" -> "trip_id"
    [] t = "\"miles\"" -> "miles"
    [] OTHER -> "not an object or array"
StrLiteral(s) ==
  CASE s = "a" -> "\"a\""
    [] s = "b" -> "\"b\""
    [] s = "t1" -> "\"t1\""
    [] s = "trip_id" -> "\"trip_id\""
    [] s = "miles" -> "\"miles\""
    [] OTHER -> "\"not an object or array\""

\* Number literals of the text, with the repr of the number each denotes
\* (json.loads("1e2") is the float 100.0, which json.dumps prints "100.0").
NumTokens == {"1", "2", "4.2", "1e2"}
NumRepr(t) == IF t = "1e2" THEN "100.0" ELSE t

\* ------------------------------------------------------------ json.loads
ParseOk(v, p) == [ok |-> TRUE, val |-> v, pos |-> p, msg |-> ""]
ParseFailAt(m) == [ok |-> FALSE, val |-> JNull, pos |-> 0, msg |-> m]

RECURSIVE SkipWs(_, _)
SkipWs(s, i) ==
  IF i <= Len(s) /\ s[i] \in Whitespace THEN SkipWs(s, i + 1) ELSE i

At(s, i, t) == i <= Len(s) /\ s[i] = t

RECURSIVE DictSet(_, _, _)
\* d[k] = v on a dict: a present key keeps its place and takes the new value.
DictSet(pairs, k, v) ==
  IF pairs = <<>> THEN <<<<k, v>>>>
  ELSE IF Head(pairs)[1] = k THEN <<<<k, v>>>> \o Tail(pairs)
  ELSE <<Head(pairs)>> \o DictSet(Tail(pairs), k, v)

RECURSIVE ParseValue(_, _)
RECURSIVE ParseElems(_, _, _)
RECURSIVE ParseMembers(_, _, _)

\* JSONArray's loop, at the first token of an element.
ParseElems(s, i, acc) ==
  LET r == ParseValue(s, i) IN
  IF ~r.ok THEN r
  ELSE LET j == SkipWs(s, r.pos)
           acc2 == Append(acc, r.val)
       IN IF At(s, j, "]") THEN ParseOk(JArr(acc2), j + 1)
          ELSE IF At(s, j, ",") THEN ParseElems(s, SkipWs(s, j + 1), acc2)
          ELSE ParseFailAt("Expecting ',' delimiter")

\* JSONObject's loop, at the token that must be a key.
ParseMembers(s, i, acc) ==
  IF ~(i <= Len(s) /\ s[i] \in StrTokens)
  THEN ParseFailAt("Expecting property name enclosed in double quotes")
  ELSE LET j == SkipWs(s, i + 1) IN
       IF ~At(s, j, ":") THEN ParseFailAt("Expecting ':' delimiter")
       ELSE LET r == ParseValue(s, SkipWs(s, j + 1)) IN
            IF ~r.ok THEN r
            ELSE LET k == SkipWs(s, r.pos)
                     acc2 == DictSet(acc, StrValue(s[i]), r.val)
                 IN IF At(s, k, "}") THEN ParseOk(JObj(acc2), k + 1)
                    ELSE IF At(s, k, ",")
                         THEN ParseMembers(s, SkipWs(s, k + 1), acc2)
                    ELSE ParseFailAt("Expecting ',' delimiter")

\* scan_once at token i.
ParseValue(s, i) ==
  IF i > Len(s) THEN ParseFailAt("Expecting value")
  ELSE LET t == s[i] IN
       CASE t \in StrTokens -> ParseOk(JStr(StrValue(t)), i + 1)
         [] t \in NumTokens -> ParseOk(JNum(NumRepr(t)), i + 1)
         [] t = "null" -> ParseOk(JNull, i + 1)
         [] t = "true" -> ParseOk(JTrue, i + 1)
         [] t = "[" ->
              LET j == SkipWs(s, i + 1) IN
              IF At(s, j, "]") THEN ParseOk(JArr(<<>>), j + 1)
              ELSE ParseElems(s, j, <<>>)
         [] t = "{" ->
              LET j == SkipWs(s, i + 1) IN
              IF At(s, j, "}") THEN ParseOk(JObj(<<>>), j + 1)
              ELSE ParseMembers(s, j, <<>>)
         [] OTHER -> ParseFailAt("Expecting value")

\* json.loads(text): one value between optional whitespace, nothing after it.
JsonLoads(s) ==
  LET r == ParseValue(s, SkipWs(s, 1)) IN
  IF ~r.ok THEN r
  ELSE IF SkipWs(s, r.pos) /= Len(s) + 1 THEN ParseFailAt("Extra data")
  ELSE r

\* ------------------------------------------------- json.dumps(_, indent=2)
RECURSIVE Spaces(_)
Spaces(n) == IF n = 0 THEN <<>> ELSE <<SP>> \o Spaces(n - 1)

\* The line break and indentation in front of an item at nesting `level`.
NewlineIndent(level) == <<NL>> \o Spaces(2 * level)

RECURSIVE DumpValue(_, _)
RECURSIVE DumpItems(_, _, _)
RECURSIVE DumpPairs(_, _, _)

DumpItems(elems, level, first) ==
  IF elems = <<>> THEN <<>>
  ELSE (IF first THEN <<>> ELSE <<",">>) \o NewlineIndent(level)
       \o DumpValue(Head(elems), level)
       \o DumpItems(Tail(elems), level, FALSE)

DumpPairs(pairs, level, first) ==
  IF pairs = <<>> THEN <<>>
  ELSE (IF first THEN <<>> ELSE <<",">>) \o NewlineIndent(level)
       \o <<StrLiteral(Head(pairs)[1]), ":", SP>>
       \o DumpValue(Head(pairs)[2], level)
       \o DumpPairs(Tail(pairs), level, FALSE)

DumpValue(v, level) ==
  CASE Tag(v) = "arr" ->
         IF Payload(v) = <<>> THEN <<"[", "]">>
         ELSE <<"[">> \o DumpItems(Payload(v), level + 1, TRUE)
              \o NewlineIndent(level) \o <<"]">>
    [] Tag(v) = "obj" ->
         IF Payload(v) = <<>> THEN <<"{", "}">>
         ELSE <<"{">> \o DumpPairs(Payload(v), level + 1, TRUE)
              \o NewlineIndent(level) \o <<"}">>
    [] Tag(v) = "str" -> <<StrLiteral(Payload(v))>>
    [] OTHER -> <<Payload(v)>>

\* json.dumps(data, indent=2) of a batch (a Python list of values).
JsonDumps(batch) == DumpValue(JArr(batch), 0)

\* ------------------------------------------------------------ exceptions
\* An exception: its class and str(e), a sequence of text fragments.
Exc(kind, msg) == [kind |-> kind, msg |-> msg]
NoExc == Exc("none", <<>>)

\* The direct base class of each exception class.
BaseOf(kind) ==
  CASE kind \in {"S3Error", "ConfigurationError", "TransformationError"}
         -> "ETLError"
    [] kind \in {"JSONDecodeError", "UnicodeDecodeError"} -> "ValueError"
    [] kind \in {"Exception", "SystemExit"} -> "BaseException"
    [] OTHER -> "Exception"

RECURSIVE IsInstance(_, _)
\* isinstance(e, cls), as an except clause tests it.
IsInstance(kind, cls) ==
  IF kind = cls THEN TRUE
  ELSE IF kind \in {"BaseException", "none"} THEN FALSE
  ELSE IsInstance(BaseOf(kind), cls)

\* Whether sequence `sub` occurs in `msg` as a contiguous run.
Contains(msg, sub) ==
  \E i \in 0..Len(msg) :
    /\ i + Len(sub) <= Len(msg)
    /\ \A j \in 1..Len(sub) : msg[i + j] = sub[j]

\* --------------------------------------------------------- configuration
\* os.getenv of a variable that is not set (None), and an absent Optional.
Unset == "<unset>"

RequiredVars == <<"AWS_REGION", "SOURCE_BUCKET", "SOURCE_KEY",
                  "DESTINATION_BUCKET", "DESTINATION_KEY">>
OptionalVars == {"AWS_ACCESS_KEY_ID", "AWS_SECRET_ACCESS_KEY", "LOG_LEVEL"}
EnvNames == {RequiredVars[i] : i \in 1..Len(RequiredVars)} \cup OptionalVars

\* `not v` for a value that is None or a str.
Falsy(v) == v \in {Unset, ""}

\* os.getenv(var, default)
GetenvDefault(env, var, default) == IF env[var] = Unset THEN default ELSE env[var]

RECURSIVE JoinComma(_)
\* ", ".join(names)
JoinComma(names) ==
  IF names = <<>> THEN <<>>
  ELSE IF Len(names) = 1 THEN names
  ELSE <<Head(names), ", ">> \o JoinComma(Tail(names))

\* The dataclass Config: its eight fields.
MkConfig(region, sb, sk, db, dk, id, secret, level) ==
  [aws_region |-> region, source_bucket |-> sb, source_key |-> sk,
   destination_bucket |-> db, destination_key |-> dk,
   aws_access_key_id |-> id, aws_secret_access_key |-> secret,
   log_level |-> level]
NoConfig == MkConfig(Unset, Unset, Unset, Unset, Unset, Unset, Unset, Unset)

\* Config.from_env: [ok, cfg, err].
FromEnv(env) ==
  LET missing_vars == SelectSeq(RequiredVars, LAMBDA var : Falsy(env[var])) IN
  IF missing_vars /= <<>>
  THEN [ok |-> FALSE, cfg |-> NoConfig,
        err |-> Exc("ConfigurationError",
                    <<"Missing required environment variables: ">>
                    \o JoinComma(missing_vars))]
  ELSE [ok |-> TRUE,
        cfg |-> MkConfig(GetenvDefault(env, "AWS_REGION", ""),
                         GetenvDefault(env, "SOURCE_BUCKET", ""),
                         GetenvDefault(env, "SOURCE_KEY", ""),
                         GetenvDefault(env, "DESTINATION_BUCKET", ""),
                         GetenvDefault(env, "DESTINATION_KEY", ""),
                         env["AWS_ACCESS_KEY_ID"],
                         env["AWS_SECRET_ACCESS_KEY"],
                         GetenvDefault(env, "LOG_LEVEL", "INFO")),
        err |-> NoExc]

\* str.upper on the log-level strings the model draws.
Upper(s) ==
  CASE s = "debug" -> "DEBUG"
    [] s = "Warning" -> "WARNING"
    [] s = "verbose" -> "VERBOSE"
    [] OTHER -> s

ValidLogLevels == {"DEBUG", "INFO", "WARNING", "ERROR", "CRITICAL"}

\* validate comparing the log level as spelled, without upper().
ValidateCaseSensitive(cfg) ==
  IF Falsy(cfg.aws_region)
  THEN Exc("ConfigurationError", <<"AWS region cannot be empty">>)
  ELSE IF Falsy(cfg.source_bucket)
  THEN Exc("ConfigurationError", <<"Source bucket cannot be empty">>)
  ELSE IF Falsy(cfg.source_key)
  THEN Exc("ConfigurationError", <<"Source key cannot be empty">>)
  ELSE IF Falsy(cfg.destination_bucket)
  THEN Exc("ConfigurationError", <<"Destination bucket cannot be empty">>)
  ELSE IF Falsy(cfg.destination_key)
  THEN Exc("ConfigurationError", <<"Destination key cannot be empty">>)
  ELSE IF cfg.log_level \notin ValidLogLevels
  THEN Exc("ConfigurationError",
           <<"Invalid log level: ", cfg.log_level, ". Must be one of ",
             "['DEBUG', 'INFO', 'WARNING', 'ERROR', 'CRITICAL']">>)
  ELSE NoExc

\* Config.validate: the exception it raises, NoExc when it returns.
Validate(cfg) ==
  IF Falsy(cfg.aws_region)
  THEN Exc("ConfigurationError", <<"AWS region cannot be empty">>)
  ELSE IF Falsy(cfg.source_bucket)
  THEN Exc("ConfigurationError", <<"Source bucket cannot be empty">>)
  ELSE IF Falsy(cfg.source_key)
  THEN Exc("ConfigurationError", <<"Source key cannot be empty">>)
  ELSE IF Falsy(cfg.destination_bucket)
  THEN Exc("ConfigurationError", <<"Destination bucket cannot be empty">>)
  ELSE IF Falsy(cfg.destination_key)
  THEN Exc("ConfigurationError", <<"Destination key cannot be empty">>)
  ELSE IF Upper(cfg.log_level) \notin ValidLogLevels
  THEN Exc("ConfigurationError",
           <<"Invalid log level: ", cfg.log_level, ". Must be one of ",
             "['DEBUG', 'INFO', 'WARNING', 'ERROR', 'CRITICAL']">>)
  ELSE NoExc

\* -------------------------------------------------------- storage gateway
\* An object store: a blob, or none, at each (bucket, key).
Blob(body) == [present |-> TRUE, body |-> body]
NoBlob == [present |-> FALSE, body |-> <<>>]

\* What a call of the boto3 client meets: nothing, a remote refusal
\* (ClientError with a code), a ClientError whose response names no code,
\* or a fault that is no ClientError (the endpoint cannot be reached).
Faults == {"none", "AccessDenied", "NoCode", "Network"}

\* A failed call of the client: [kind, code, msg]; code Unset when the
\* response has no Error.Code.
ClientFault(fault, notFoundCode, op) ==
  CASE fault = "AccessDenied" ->
         [kind |-> "ClientError", code |-> "AccessDenied",
          msg |-> <<"An error occurred (AccessDenied) when calling the ", op,
                    " operation: Access Denied">>]
    [] fault = "NoCode" ->
         [kind |-> "ClientError", code |-> Unset,
          msg |-> <<"An error occurred (Unknown) when calling the ", op,
                    " operation: Unknown">>]
    [] fault = "Network" ->
         [kind |-> "EndpointConnectionError", code |-> Unset,
          msg |-> <<"Could not connect to the endpoint URL">>]
    [] OTHER ->
         [kind |-> "ClientError", code |-> notFoundCode,
          msg |-> <<"An error occurred (", notFoundCode, ") when calling the ",
                    op, " operation: Not Found">>]

\* e.response.get("Error", {}).get("Code", "Unknown")
ErrorCode(f) == IF f.code = Unset THEN "Unknown" ELSE f.code

\* S3Client.read_object: [ok, content, err].
ReadObject(st, bucket, key, fault) ==
  IF fault = "none" /\ st[<<bucket, key>>].present
  THEN [ok |-> TRUE, content |-> st[<<bucket, key>>].body, err |-> NoExc]
  ELSE LET f == ClientFault(fault, "NoSuchKey", "GetObject") IN
       [ok |-> FALSE, content |-> <<>>,
        err |-> IF IsInstance(f.kind, "ClientError")
                THEN Exc("S3Error",
                         <<"Failed to read object from s3://", bucket, "/", key,
                           ": ", ErrorCode(f), " - ">> \o f.msg)
                ELSE Exc("S3Error",
                         <<"Unexpected error reading from S3: ">> \o f.msg)]

\* A put that appends to the object already there.
PutObjectAppend(st, bucket, key, content) ==
  [st EXCEPT ![<<bucket, key>>] = Blob(st[<<bucket, key>>].body \o content)]

\* put_object: the object at (bucket, key) replaced whole.
PutObject(st, bucket, key, content) ==
  [st EXCEPT ![<<bucket, key>>] = Blob(content)]

\* S3Client.write_object: [ok, store, err].
WriteObject(st, bucket, key, content, fault) ==
  IF fault = "none"
  THEN [ok |-> TRUE, store |-> PutObject(st, bucket, key, content),
        err |-> NoExc]
  ELSE LET f == ClientFault(fault, "NoSuchBucket", "PutObject") IN
       [ok |-> FALSE, store |-> st,
        err |-> IF IsInstance(f.kind, "ClientError")
                THEN Exc("S3Error",
                         <<"Failed to write object to s3://", bucket, "/", key,
                           ": ", ErrorCode(f), " - ">> \o f.msg)
                ELSE Exc("S3Error",
                         <<"Unexpected error writing to S3: ">> \o f.msg)]

\* S3Client.object_exists: [returned, value, err]; err is what leaves the
\* method when it does not return.
ObjectExists(st, bucket, key, fault) ==
  IF fault = "none" /\ st[<<bucket, key>>].present
  THEN [returned |-> TRUE, value |-> TRUE, err |-> NoExc]
  ELSE LET f == ClientFault(fault, "404", "HeadObject") IN
       IF IsInstance(f.kind, "ClientError")
       THEN IF f.code = "404"
            THEN [returned |-> TRUE, value |-> FALSE, err |-> NoExc]
            ELSE [returned |-> FALSE, value |-> FALSE,
                  err |-> Exc("S3Error",
                              <<"Error checking object existence: ">> \o f.msg)]
       ELSE [returned |-> FALSE, value |-> FALSE, err |-> Exc(f.kind, f.msg)]

\* ------------------------------------------------------------ transformer
\* row.copy(): a dict and a list have the method, nothing else has.
HasCopy(row) == Tag(row) \in {"obj", "arr"}

\* The fault of row.copy() on a value without the method.
CopyFault(row) ==
  Exc("AttributeError",
      <<"'", TypeWord(row), "' object has no attribute 'copy'">>)

\* TripTransformer.transform_row: [ok, row, input, err]; input is the
\* argument as the call leaves it.
TransformRow(row) ==
  IF HasCopy(row)
  THEN [ok |-> TRUE, row |-> row, input |-> row, err |-> NoExc]
  ELSE [ok |-> FALSE, row |-> JNull, input |-> row,
        err |-> Exc("TransformationError",
                    <<"Failed to transform row: ">> \o CopyFault(row).msg)]

RECURSIVE TransformRowsReversed(_, _, _)
\* The comprehension building its list back to front.
TransformRowsReversed(rows, i, acc) ==
  IF i > Len(rows)
  THEN [ok |-> TRUE, rows |-> acc, input |-> rows, err |-> NoExc]
  ELSE LET r == TransformRow(rows[i]) IN
       IF ~r.ok
       THEN [ok |-> FALSE, rows |-> <<>>, input |-> rows, err |-> r.err]
       ELSE TransformRowsReversed(rows, i + 1, <<r.row>> \o acc)

RECURSIVE TransformRows(_, _, _)
\* The list comprehension of transform_batch, from row i on.
TransformRows(rows, i, acc) ==
  IF i > Len(rows)
  THEN [ok |-> TRUE, rows |-> acc, input |-> rows, err |-> NoExc]
  ELSE LET r == TransformRow(rows[i]) IN
       IF ~r.ok
       THEN [ok |-> FALSE, rows |-> <<>>,
             input |-> [rows EXCEPT ![i] = r.input], err |-> r.err]
       ELSE TransformRows([rows EXCEPT ![i] = r.input], i + 1,
                          Append(acc, r.row))

\* TripTransformer.transform_batch: [ok, rows, input, err].
TransformBatch(rows) ==
  LET r == TransformRows(rows, 1, <<>>) IN
  IF r.ok \/ IsInstance(r.err.kind, "TransformationError") THEN r
  ELSE [r EXCEPT !.err = Exc("TransformationError",
                             <<"Failed to transform batch: ">> \o r.err.msg)]

\* ----------------------------------------------------------- orchestrator
Range(f) == {f[i] : i \in DOMAIN f}

\* extract with a first clause "except ETLError: raise", as run has.
ExtractBoundaryReraise(e) ==
  IF IsInstance(e.kind, "ETLError") THEN e
  ELSE IF IsInstance(e.kind, "JSONDecodeError")
  THEN Exc("ETLError", <<"Failed to parse JSON data: ">> \o e.msg)
  ELSE IF IsInstance(e.kind, "Exception")
  THEN Exc("ETLError", <<"Extraction failed: ">> \o e.msg)
  ELSE e

\* The except clauses of extract, on a fault raised in its try block.
ExtractBoundary(e) ==
  IF IsInstance(e.kind, "JSONDecodeError")
  THEN Exc("ETLError", <<"Failed to parse JSON data: ">> \o e.msg)
  ELSE IF IsInstance(e.kind, "Exception")
  THEN Exc("ETLError", <<"Extraction failed: ">> \o e.msg)
  ELSE e

\* content.decode("utf-8"): the fault it raises, NoExc when it decodes.
DecodeUtf8(content) ==
  IF BadByte \in Range(content)
  THEN Exc("UnicodeDecodeError",
           <<"'utf-8' codec can't decode byte 0xff: invalid start byte">>)
  ELSE NoExc

\* extract wrapping whatever is not a list into a one-element batch.
ExtractBodyWrapAll(st, cfg, fault) ==
  LET r == ReadObject(st, cfg.source_bucket, cfg.source_key, fault)
      fail(e) == [ok |-> FALSE, data |-> <<>>, err |-> e,
                  calls |-> <<"read_object">>]
  IN IF ~r.ok THEN fail(r.err)
     ELSE IF DecodeUtf8(r.content) /= NoExc THEN fail(DecodeUtf8(r.content))
     ELSE LET p == JsonLoads(r.content) IN
          IF ~p.ok THEN fail(Exc("JSONDecodeError", <<p.msg>>))
          ELSE [ok |-> TRUE,
                data |-> IF IsList(p.val) THEN Payload(p.val) ELSE <<p.val>>,
                err |-> NoExc, calls |-> <<"read_object">>]

\* The body of extract's try block: [ok, data, err, calls], err the fault
\* raised inside the block.
ExtractBody(st, cfg, fault) ==
  LET r == ReadObject(st, cfg.source_bucket, cfg.source_key, fault)
      fail(e) == [ok |-> FALSE, data |-> <<>>, err |-> e,
                  calls |-> <<"read_object">>]
  IN IF ~r.ok THEN fail(r.err)
     ELSE IF DecodeUtf8(r.content) /= NoExc THEN fail(DecodeUtf8(r.content))
     ELSE LET p == JsonLoads(r.content) IN
          IF ~p.ok THEN fail(Exc("JSONDecodeError", <<p.msg>>))
          ELSE IF IsDict(p.val)
          THEN [ok |-> TRUE, data |-> <<p.val>>, err |-> NoExc,
                calls |-> <<"read_object">>]
          ELSE IF ~IsList(p.val)
          THEN fail(Exc("ETLError",
                        <<"Unexpected data format: ", TypeName(p.val)>>))
          ELSE [ok |-> TRUE, data |-> Payload(p.val), err |-> NoExc,
                calls |-> <<"read_object">>]

\* ETLProcessor.extract: [ok, data, err, calls].
Extract(st, cfg, fault) ==
  LET b == ExtractBody(st, cfg, fault) IN
  IF b.ok THEN b ELSE [b EXCEPT !.err = ExtractBoundary(b.err)]

\* The except clause of transform.
TransformBoundary(e) ==
  IF IsInstance(e.kind, "Exception")
  THEN Exc("ETLError", <<"Transformation failed: ">> \o e.msg)
  ELSE e

\* ETLProcessor.transform: [ok, rows, input, err].
Transform(rows) ==
  LET r == TransformBatch(rows) IN
  IF r.ok THEN r ELSE [r EXCEPT !.err = TransformBoundary(r.err)]

\* The except clause of load.
LoadBoundary(e) ==
  IF IsInstance(e.kind, "Exception")
  THEN Exc("ETLError", <<"Loading failed: ">> \o e.msg)
  ELSE e

\* load leaving, when the write fails, the rows it had sent so far.
LoadPartial(st, cfg, rows, fault) ==
  LET content == JsonDumps(rows)
      w == WriteObject(st, cfg.destination_bucket, cfg.destination_key,
                       content, fault)
  IN [ok |-> w.ok,
      store |-> IF w.ok THEN w.store
                ELSE PutObject(st, cfg.destination_bucket,
                               cfg.destination_key, Truncated(content)),
      err |-> IF w.ok THEN NoExc ELSE LoadBoundary(w.err),
      calls |-> <<"write_object">>]

\* ETLProcessor.load: [ok, store, err, calls].
Load(st, cfg, rows, fault) ==
  LET content == JsonDumps(rows)
      w == WriteObject(st, cfg.destination_bucket, cfg.destination_key,
                       content, fault)
  IN [ok |-> w.ok, store |-> w.store,
      err |-> IF w.ok THEN NoExc ELSE LoadBoundary(w.err),
      calls |-> <<"write_object">>]

\* The except clauses of run.
RunBoundary(e) ==
  IF IsInstance(e.kind, "ETLError") THEN e
  ELSE IF IsInstance(e.kind, "Exception")
  THEN Exc("ETLError", <<"ETL pipeline failed: ">> \o e.msg)
  ELSE e

\* ------------------------------------------------------------ entry point
\* main without its last clause, except Exception.
MainHandlerNoCatchAll(e) ==
  IF IsInstance(e.kind, "ConfigurationError")
  THEN [caught |-> TRUE, status |-> 1, label |-> "Configuration error: "]
  ELSE IF IsInstance(e.kind, "ETLError")
  THEN [caught |-> TRUE, status |-> 1, label |-> "ETL error: "]
  ELSE [caught |-> FALSE, status |-> 1, label |-> "Traceback: "]

\* The except clauses of main on a fault raised in its try block:
\* [caught, status, label]. A fault no clause catches leaves main, and the
\* interpreter ends the process with status 1.
MainHandler(e) ==
  IF IsInstance(e.kind, "ConfigurationError")
  THEN [caught |-> TRUE, status |-> 1, label |-> "Configuration error: "]
  ELSE IF IsInstance(e.kind, "ETLError")
  THEN [caught |-> TRUE, status |-> 1, label |-> "ETL error: "]
  ELSE IF IsInstance(e.kind, "Exception")
  THEN [caught |-> TRUE, status |-> 1, label |-> "Unexpected error: "]
  ELSE [caught |-> FALSE, status |-> 1, label |-> "Traceback: "]

\* S3Client.__init__: the exception it raises, NoExc when it returns.
InitClient(region, boto_fails) ==
  IF boto_fails
  THEN Exc("S3Error", <<"Failed to initialize S3 client: ",
                        "Unknown service or region">>)
  ELSE NoExc

\* ----------------------------------------------------------------- inputs
Buckets == {"b1", "b2"}
Keys == {"k1"}
Locations == Buckets \X Keys

ObjA1 == JObj(<<<<"a", JNum("1")>>>>)
ObjA2 == JObj(<<<<"a", JNum("2")>>>>)
TripObj == JObj(<<<<"trip_id", JStr("t1")>>, <<"miles", JNum("4.2")>>>>)

\* Top-level documents that are neither an object nor an array.
ScalarDocs == {JNum("1"), JStr("not an object or array"), JTrue, JNull}
ObjectDocs == {JObj(<<>>), ObjA1, TripObj}
\* What an array of a source document may hold: objects, scalars of each
\* kind, and a nested array.
Elems == {ObjA1, ObjA2, JNum("1"), JStr("a"), JTrue, JNull, JArr(<<JNum("1")>>)}
ArrayDocs == {JArr(e) : e \in UNION {[1..n -> Elems] : n \in 0..MaxBatch}}
Docs == ScalarDocs \cup ObjectDocs \cup ArrayDocs

\* A document written without whitespace.
Compact(d) == SelectSeq(DumpValue(d, 0), LAMBDA t : t \notin Whitespace)

\* {"trip_id": "t1", "miles": 4.2}
TripText == <<"{", "\"trip_id\"", ":", SP, "\"t1\"", ",", SP,
              "\"miles\"", ":", SP, "4.2", "}">>

\* Texts off the documents' grid: an exponent literal, a repeated key,
\* text after the value, a byte that is not UTF-8, nothing at all.
OddTexts ==
  { TripText,
    <<"[", "{", "\"a\"", ":", "1e2", "}", "]">>,
    <<"{", "\"a\"", ":", "1", ",", "\"b\"", ":", "2", ",", "\"a\"", ":", "2", "}">>,
    <<"{", "}", "1">>,
    <<"[", "1", ",", "]">>,
    <<"{", "\"a\"", "1", "}">>,
    <<"[", BadByte, "]">>,
    <<>> }

SourceTexts ==
  {DumpValue(d, 0) : d \in Docs} \cup {Compact(d) : d \in Docs}
  \cup {Truncated(Compact(d)) : d \in Docs} \cup OddTexts

\* What the destination may hold before the first run.
OldText == <<"[", "\"b\"", "]">>

\* An environment: a value, or Unset, for each variable main reads.
MkEnv(region, sb, sk, db, dk, id, secret, level) ==
  [n \in EnvNames |->
     CASE n = "AWS_REGION" -> region
       [] n = "SOURCE_BUCKET" -> sb
       [] n = "SOURCE_KEY" -> sk
       [] n = "DESTINATION_BUCKET" -> db
       [] n = "DESTINATION_KEY" -> dk
       [] n = "AWS_ACCESS_KEY_ID" -> id
       [] n = "AWS_SECRET_ACCESS_KEY" -> secret
       [] OTHER -> level]

\* The environments of the pipeline runs: source and destination apart,
\* source and destination the same object, and three that main must refuse.
PipelineEnvs ==
  { MkEnv("us-east-1", "b1", "k1", "b2", "k1", Unset, Unset, Unset),
    MkEnv("us-east-1", "b1", "k1", "b1", "k1", "AKIA", "secret", "debug"),
    MkEnv("us-east-1", "b1", "", "b2", "k1", Unset, Unset, "INFO"),
    MkEnv("us-east-1", "b1", "k1", Unset, "k1", Unset, Unset, "INFO"),
    MkEnv("us-east-1", "b1", "k1", "b2", "k1", Unset, Unset, "verbose") }

\* ------------------------------------------------------------------ state
VARIABLES
  env,              \* the process environment
  store,            \* the object store: Locations -> blob
  pc,               \* where main stands
  logger,           \* whether main's logger is set up
  config,           \* the Config main loaded
  data,             \* run's data: the extracted batch
  transformed_data, \* run's transformed_data
  err,              \* the fault that ended the run of main, NoExc if none
  origin,           \* that fault as first raised, before any except clause
  exit_status,      \* the process's exit status, NoStatus while it runs
  escaped,          \* whether a fault left main uncaught
  report,           \* what main reported: <<channel, label>> \o message
  phases,           \* the phases run has entered, each with its outcome
  calls,            \* the gateway methods called, in order
  runs,             \* process invocations so far, this one included
  store0,           \* the store as this invocation found it
  src_seen,         \* the source blob this invocation read
  history,          \* one record per finished invocation
  gw                \* the last gateway call and what it gave

vars == <<env, store, pc, logger, config, data, transformed_data, err,
          origin, exit_status, escaped, report, phases, calls, runs, store0,
          src_seen, history, gw>>

NoStatus == 99
NoCall == [op |-> "none", bucket |-> "", key |-> "", fault |-> "none",
           returned |-> FALSE, value |-> FALSE, err |-> NoExc]

\* The state of a process as main is entered.
Fresh ==
  /\ pc = "start"
  /\ logger = FALSE
  /\ config = NoConfig
  /\ data = <<>>
  /\ transformed_data = <<>>
  /\ err = NoExc
  /\ origin = NoExc
  /\ exit_status = NoStatus
  /\ escaped = FALSE
  /\ report = <<>>
  /\ phases = <<>>
  /\ calls = <<>>
  /\ src_seen = NoBlob

Init ==
  /\ env \in PipelineEnvs
  /\ \E s \in {Blob(t) : t \in SourceTexts} \cup {NoBlob},
        d \in {Blob(OldText), NoBlob} :
       store = [l \in Locations |-> IF l = <<"b1", "k1">> THEN s ELSE d]
  /\ Fresh
  /\ runs = 1
  /\ store0 = store
  /\ history = <<>>
  /\ gw = NoCall

\* ------------------------------------------------------------------ main
\* getattr(logging, config.log_level.upper()): the fault it raises.
LogLevelAttr(level) ==
  IF Upper(level) \in ValidLogLevels THEN NoExc
  ELSE Exc("AttributeError",
           <<"module 'logging' has no attribute '", Upper(level), "'">>)

\* A run that goes from Extract straight to Load.
PhaseAfterSkip(phase) ==
  CASE phase = "extract" -> "load"
    [] phase = "transform" -> "load"
    [] OTHER -> "ran"

\* The order of the phases in run.
PhaseAfter(phase) ==
  CASE phase = "extract" -> "transform"
    [] phase = "transform" -> "load"
    [] OTHER -> "ran"

\* The process ends: main's except clauses on fault e, then sys.exit.
Fail(e) ==
  LET h == MainHandler(e) IN
  /\ pc' = "exited"
  /\ err' = e
  /\ exit_status' = h.status
  /\ escaped' = ~h.caught
  /\ report' = <<IF h.caught /\ logger' THEN "logger" ELSE "stderr", h.label>>
               \o e.msg
  /\ history' = Append(history, [status |-> h.status, src |-> src_seen',
                                store |-> store'])

\* main, lines 32-33: Config.from_env() and config.validate().
LoadConfig ==
  /\ pc = "start"
  /\ LET r == FromEnv(env)
         v == Validate(r.cfg)
     IN /\ config' = r.cfg
        /\ UNCHANGED <<env, store, logger, data, transformed_data, phases,
                       calls, runs, store0, src_seen, gw>>
        /\ origin' = IF ~r.ok THEN r.err ELSE v
        /\ IF ~r.ok THEN Fail(r.err)
           ELSE IF v /= NoExc THEN Fail(v)
           ELSE /\ pc' = "configured"
                /\ UNCHANGED <<err, exit_status, escaped, report, history>>

\* main, lines 36-39: the log level and setup_logger; an unforeseen fault
\* may be raised here.
SetupLogging ==
  /\ pc = "configured"
  /\ \E unforeseen \in BOOLEAN :
       LET e == IF LogLevelAttr(config.log_level) /= NoExc
                THEN LogLevelAttr(config.log_level)
                ELSE IF unforeseen
                THEN Exc("RuntimeError", <<"unforeseen fault">>)
                ELSE NoExc
       IN /\ logger' = (e = NoExc)
          /\ UNCHANGED <<env, store, config, data, transformed_data, phases,
                         calls, runs, store0, src_seen, gw>>
          /\ origin' = e
          /\ IF e /= NoExc THEN Fail(e)
             ELSE /\ pc' = "logging"
                  /\ UNCHANGED <<err, exit_status, escaped, report, history>>

\* main, lines 42-47: S3Client(...).
InitS3Client ==
  /\ pc = "logging"
  /\ \E boto_fails \in BOOLEAN :
       LET e == InitClient(config.aws_region, boto_fails) IN
       /\ UNCHANGED <<env, store, logger, config, data, transformed_data,
                      phases, calls, runs, store0, src_seen, gw>>
       /\ origin' = e
       /\ IF e /= NoExc THEN Fail(e)
          ELSE /\ pc' = "client"
               /\ UNCHANGED <<err, exit_status, escaped, report, history>>

\* main, lines 50-60: TripTransformer(...), ETLProcessor(...), and run entered.
InitProcessor ==
  /\ pc = "client"
  /\ pc' = "extract"
  /\ UNCHANGED <<env, store, logger, config, data, transformed_data, err,
                 origin, exit_status, escaped, report, phases, calls, runs,
                 store0, src_seen, history, gw>>

\* run, line 126: self.extract().
RunExtract ==
  /\ pc = "extract"
  /\ \E fault \in Faults :
       LET r == Extract(store, config, fault)
           got == ReadObject(store, config.source_bucket, config.source_key,
                             fault)
       IN /\ data' = r.data
          /\ phases' = Append(phases, <<"extract", r.ok>>)
          /\ calls' = calls \o r.calls
          /\ src_seen' = IF got.ok THEN Blob(got.content) ELSE NoBlob
          /\ origin' = ExtractBody(store, config, fault).err
          /\ UNCHANGED <<env, store, logger, config, transformed_data, runs,
                         store0, gw>>
          /\ IF ~r.ok THEN Fail(RunBoundary(r.err))
             ELSE /\ pc' = PhaseAfter("extract")
                  /\ UNCHANGED <<err, exit_status, escaped, report, history>>

\* run, line 129: self.transform(data).
RunTransform ==
  /\ pc = "transform"
  /\ LET r == Transform(data) IN
     /\ data' = r.input
     /\ transformed_data' = r.rows
     /\ phases' = Append(phases, <<"transform", r.ok>>)
     /\ origin' = TransformBatch(data).err
     /\ UNCHANGED <<env, store, logger, config, calls, runs, store0,
                    src_seen, gw>>
     /\ IF ~r.ok THEN Fail(RunBoundary(r.err))
        ELSE /\ pc' = PhaseAfter("transform")
             /\ UNCHANGED <<err, exit_status, escaped, report, history>>

\* run, line 132: self.load(transformed_data).
RunLoad ==
  /\ pc = "load"
  /\ \E fault \in Faults :
       LET r == Load(store, config, transformed_data, fault) IN
       /\ store' = r.store
       /\ phases' = Append(phases, <<"load", r.ok>>)
       /\ origin' = WriteObject(store, config.destination_bucket,
                               config.destination_key,
                               JsonDumps(transformed_data), fault).err
       /\ calls' = calls \o r.calls
       /\ UNCHANGED <<env, logger, config, data, transformed_data, runs,
                      store0, src_seen, gw>>
       /\ IF ~r.ok THEN Fail(RunBoundary(r.err))
          ELSE /\ pc' = PhaseAfter("load")
               /\ UNCHANGED <<err, exit_status, escaped, report, history>>

\* main, lines 62-63: sys.exit(0) raises SystemExit inside the try block.
Finish ==
  /\ pc = "ran"
  /\ LET e == Exc("SystemExit", <<"0">>)
         h == MainHandler(e)
     IN /\ UNCHANGED <<env, store, logger, config, data, transformed_data,
                       origin, phases, calls, runs, store0, src_seen, gw>>
        /\ IF h.caught THEN Fail(e)
           ELSE /\ pc' = "exited"
                /\ exit_status' = 0
                /\ history' = Append(history, [status |-> 0, src |-> src_seen,
                                               store |-> store])
                /\ UNCHANGED <<err, escaped, report>>

\* The program is started again: a new process, the same environment and
\* object store.
Restart ==
  /\ pc = "exited"
  /\ runs < MaxRuns
  /\ runs' = runs + 1
  /\ store0' = store
  /\ pc' = "start"
  /\ logger' = FALSE
  /\ config' = NoConfig
  /\ data' = <<>>
  /\ transformed_data' = <<>>
  /\ err' = NoExc
  /\ origin' = NoExc
  /\ exit_status' = NoStatus
  /\ escaped' = FALSE
  /\ report' = <<>>
  /\ phases' = <<>>
  /\ calls' = <<>>
  /\ src_seen' = NoBlob
  /\ UNCHANGED <<env, store, history, gw>>

Next ==
  \/ LoadConfig
  \/ SetupLogging
  \/ InitS3Client
  \/ InitProcessor
  \/ RunExtract
  \/ RunTransform
  \/ RunLoad
  \/ Finish
  \/ Restart

Spec == Init /\ [][Next]_vars

\* ------------------------------------------------- the Config class alone
\* The environments of configuration loading: each required variable
\* unset, empty or set, the credentials unset or set, the log level unset,
\* empty, valid in three spellings, or unknown.
LogLevelTexts == {"", "INFO", "debug", "Warning", "verbose"}
ConfigEnvs ==
  { MkEnv(region, sb, sk, db, dk, cred, cred, level) :
      region \in {Unset, "", "us-east-1"}, sb \in {Unset, "", "b1"},
      sk \in {Unset, "", "k1"}, db \in {Unset, "", "b2"},
      dk \in {Unset, "", "k1"}, cred \in {Unset, "AKIA"},
      level \in {Unset} \cup LogLevelTexts }

\* Config objects built by calling the dataclass directly.
DirectConfigs ==
  { MkConfig(region, sb, sk, db, dk, Unset, Unset, level) :
      region \in {"", "us-east-1"}, sb \in {"", "b1"}, sk \in {"", "k1"},
      db \in {"", "b2"}, dk \in {"", "k1"}, level \in LogLevelTexts }

\* Either main is run in an environment, or a Config is built directly and
\* then validated.
InitConfig ==
  /\ store = [l \in Locations |->
                IF l = <<"b1", "k1">> THEN Blob(TripText) ELSE NoBlob]
  /\ \/ env \in ConfigEnvs /\ Fresh
     \/ /\ env = MkEnv(Unset, Unset, Unset, Unset, Unset, Unset, Unset, Unset)
        /\ config \in DirectConfigs
        /\ pc = "built"
        /\ logger = FALSE
        /\ data = <<>>
        /\ transformed_data = <<>>
        /\ err = NoExc
        /\ origin = NoExc
        /\ exit_status = NoStatus
        /\ escaped = FALSE
        /\ report = <<>>
        /\ phases = <<>>
        /\ calls = <<>>
        /\ src_seen = NoBlob
  /\ runs = 1
  /\ store0 = store
  /\ history = <<>>
  /\ gw = NoCall

\* config.validate() on a Config built directly.
CallValidate ==
  /\ pc = "built"
  /\ err' = Validate(config)
  /\ pc' = IF err' = NoExc THEN "valid" ELSE "invalid"
  /\ UNCHANGED <<env, store, logger, config, data, transformed_data, origin,
                 exit_status, escaped, report, phases, calls, runs, store0,
                 src_seen, history, gw>>

NextConfig == Next \/ CallValidate
SpecConfig == InitConfig /\ [][NextConfig]_vars

\* ------------------------------------------------------ the gateway alone
GatewayTexts == {OldText, TripText}

InitGateway ==
  /\ env = MkEnv(Unset, Unset, Unset, Unset, Unset, Unset, Unset, Unset)
  /\ store \in [Locations -> {Blob(t) : t \in GatewayTexts} \cup {NoBlob}]
  /\ pc = "gateway"
  /\ logger = FALSE
  /\ config = NoConfig
  /\ data = <<>>
  /\ transformed_data = <<>>
  /\ err = NoExc
  /\ origin = NoExc
  /\ exit_status = NoStatus
  /\ escaped = FALSE
  /\ report = <<>>
  /\ phases = <<>>
  /\ calls = <<>>
  /\ src_seen = NoBlob
  /\ runs = 1
  /\ store0 = store
  /\ history = <<>>
  /\ gw = NoCall

GatewayFrame ==
  UNCHANGED <<env, pc, logger, config, data, transformed_data, err, origin,
              exit_status, escaped, report, phases, calls, runs, store0,
              src_seen, history>>

\* A call of read_object.
CallReadObject ==
  /\ pc = "gateway"
  /\ \E l \in Locations, fault \in Faults :
       LET r == ReadObject(store, l[1], l[2], fault) IN
       /\ gw' = [op |-> "read_object", bucket |-> l[1], key |-> l[2],
                 fault |-> fault, returned |-> r.ok, value |-> r.ok,
                 err |-> r.err]
       /\ UNCHANGED store
  /\ GatewayFrame

\* A call of write_object.
CallWriteObject ==
  /\ pc = "gateway"
  /\ \E l \in Locations, fault \in Faults, t \in GatewayTexts :
       LET r == WriteObject(store, l[1], l[2], t, fault) IN
       /\ gw' = [op |-> "write_object", bucket |-> l[1], key |-> l[2],
                 fault |-> fault, returned |-> r.ok, value |-> r.ok,
                 err |-> r.err]
       /\ store' = r.store
  /\ GatewayFrame

\* A call of object_exists.
CallObjectExists ==
  /\ pc = "gateway"
  /\ \E l \in Locations, fault \in Faults :
       LET r == ObjectExists(store, l[1], l[2], fault) IN
       /\ gw' = [op |-> "object_exists", bucket |-> l[1], key |-> l[2],
                 fault |-> fault, returned |-> r.returned, value |-> r.value,
                 err |-> r.err]
       /\ UNCHANGED store
  /\ GatewayFrame

NextGateway == CallReadObject \/ CallWriteObject \/ CallObjectExists
SpecGateway == InitGateway /\ [][NextGateway]_vars
\* ------------------------------------------------------------ properties
SrcLoc == <<config.source_bucket, config.source_key>>
DstLoc == <<config.destination_bucket, config.destination_key>>
EnvDstLoc == <<env["DESTINATION_BUCKET"], env["DESTINATION_KEY"]>>

AllPhasesOk == <<<<"extract", TRUE>>, <<"transform", TRUE>>, <<"load", TRUE>>>>
PhaseFailed == Len(phases) >= 1 /\ ~phases[Len(phases)][2]
IsPrefix(p, q) == Len(p) <= Len(q) /\ \A i \in 1..Len(p) : p[i] = q[i]
AllDicts(batch) == \A i \in 1..Len(batch) : IsDict(batch[i])

\* What the source blob this run read decodes to.
SourceDoc == JsonLoads(src_seen.body)
SourceDecodes == src_seen.present /\ BadByte \notin Range(src_seen.body)
\* The batch that blob stands for: the object alone, or the array's elements.
SourceBatch ==
  IF IsDict(SourceDoc.val) THEN <<SourceDoc.val>> ELSE Payload(SourceDoc.val)

\* C1: in every run the phases entered are a prefix of Extract, Transform,
\* Load, each at most once and each only after the one before it succeeded;
\* after a failed phase the run is over; the gateway sees at most one read
\* and then at most one write, and a successful run exactly one of each.
C1_PhaseOrder ==
  /\ IsPrefix([i \in 1..Len(phases) |-> phases[i][1]],
              <<"extract", "transform", "load">>)
  /\ \A i \in 1..Len(phases) : i < Len(phases) => phases[i][2]
  /\ PhaseFailed => pc = "exited"
  /\ IsPrefix(calls, <<"read_object", "write_object">>)
  /\ pc = "transform" => phases = SubSeq(AllPhasesOk, 1, 1)
  /\ pc = "load" => phases = SubSeq(AllPhasesOk, 1, 2)
  /\ (pc = "ran" \/ (pc = "exited" /\ exit_status = 0)) =>
       /\ phases = AllPhasesOk
       /\ calls = <<"read_object", "write_object">>

\* A run that succeeded: one read, then one write.
C1_Witness ==
  /\ pc = "ran"
  /\ phases = AllPhasesOk
  /\ calls = <<"read_object", "write_object">>

\* Every step main depends on succeeded.
EverythingSucceeded ==
  /\ \A i \in 1..Len(RequiredVars) : env[RequiredVars[i]] \notin {Unset, ""}
  /\ env["LOG_LEVEL"] \in {Unset, "INFO", "debug", "Warning"}
  /\ logger
  /\ phases = AllPhasesOk
  /\ origin = NoExc

\* C2: main ends with status 0 exactly when configuration loading and
\* validation, the construction of its parts and all three phases
\* succeeded, with status 1 otherwise, and no fault leaves it uncaught.
C2_ExitStatus ==
  /\ pc /= "exited" => exit_status = NoStatus /\ ~escaped
  /\ pc = "exited" =>
       /\ exit_status \in {0, 1}
       /\ ~escaped
       /\ exit_status = 0 <=> EverythingSucceeded

\* main ended with status 1 on a fault that is no ETLError, caught and
\* reported as unexpected.
C2_Witness ==
  /\ pc = "exited"
  /\ exit_status = 1
  /\ ~IsInstance(err.kind, "ETLError")
  /\ report[2] = "Unexpected error: "

\* C3: a failure that leaves a phase of the run is an ETLError and nothing
\* more special, and its message holds the message of the fault as it was
\* first raised; a read that found no object says so in it.
C3_OnlyETLError ==
  PhaseFailed =>
    /\ err.kind = "ETLError"
    /\ origin.kind /= "none"
    /\ Contains(err.msg, origin.msg)
    /\ (phases = <<<<"extract", FALSE>>>> /\ origin.kind = "S3Error"
        /\ Contains(origin.msg, <<"NoSuchKey">>))
         => Contains(err.msg, <<"NoSuchKey">>)

\* Extract failed on a source that is not there.
C3_Witness ==
  /\ phases = <<<<"extract", FALSE>>>>
  /\ ~store[SrcLoc].present
  /\ origin.kind = "S3Error"
  /\ err.kind = "ETLError"
  /\ Contains(err.msg, <<"NoSuchKey">>)

\* C4: extract sorts the decoded source by its top-level shape: an object
\* gives the batch of that one object, an array gives its elements in
\* order, a number, string, boolean or null fails with an ETLError naming
\* the type, and text that is no JSON fails with an ETLError holding the
\* decoder's message.
C4_ExtractShape ==
  (Len(phases) >= 1 /\ SourceDecodes) =>
    /\ (SourceDoc.ok /\ IsDict(SourceDoc.val)) =>
         phases[1][2] /\ data = <<SourceDoc.val>>
    /\ (SourceDoc.ok /\ IsList(SourceDoc.val)) =>
         phases[1][2] /\ data = Payload(SourceDoc.val)
    /\ (SourceDoc.ok /\ ~IsDict(SourceDoc.val) /\ ~IsList(SourceDoc.val)) =>
         /\ phases = <<<<"extract", FALSE>>>>
         /\ err.kind = "ETLError"
         /\ Contains(err.msg, <<"Unexpected data format: ",
                                TypeName(SourceDoc.val)>>)
    /\ ~SourceDoc.ok =>
         /\ phases = <<<<"extract", FALSE>>>>
         /\ err.kind = "ETLError"
         /\ Contains(err.msg, <<"Failed to parse JSON data: ", SourceDoc.msg>>)
    /\ src_seen.body = Compact(ObjA1) => data = <<ObjA1>>
    /\ src_seen.body = Compact(JArr(<<ObjA1, ObjA2>>)) => data = <<ObjA1, ObjA2>>
    /\ src_seen.body = <<"[", "]">> => phases[1][2] /\ data = <<>>
    /\ src_seen.body = <<"\"not an object or array\"">> =>
         ~phases[1][2] /\ Contains(err.msg, <<"<class 'str'>">>)
    /\ src_seen.body = Truncated(Compact(ObjA1)) =>
         ~phases[1][2] /\ Contains(err.msg, <<"Failed to parse JSON data: ">>)

\* Extract refused a bare string.
C4_Witness ==
  /\ phases = <<<<"extract", FALSE>>>>
  /\ src_seen.body = <<"\"not an object or array\"">>
  /\ err.kind = "ETLError"

\* The source decodes to an array with an element that is no object.
SourceHasNonObject ==
  /\ SourceDecodes
  /\ SourceDoc.ok
  /\ IsList(SourceDoc.val)
  /\ ~AllDicts(Payload(SourceDoc.val))

\* C5: a source array with an element that is no object makes the run fail
\* with an ETLError and nothing is written; what a successful run writes is
\* an array of objects.
C5_OnlyObjects ==
  /\ (pc = "exited" /\ Len(phases) >= 1 /\ SourceHasNonObject) =>
       /\ exit_status = 1
       /\ err.kind = "ETLError"
       /\ "write_object" \notin Range(calls)
  /\ (pc = "exited" /\ exit_status = 0) =>
       /\ JsonLoads(store[DstLoc].body).ok
       /\ IsList(JsonLoads(store[DstLoc].body).val)
       /\ AllDicts(Payload(JsonLoads(store[DstLoc].body).val))

\* C6: on a batch of N objects transform_batch gives N records, the i-th
\* equal to the i-th input, and leaves the input batch as it was.
C6_TransformIdentity ==
  (Len(phases) >= 2 /\ AllDicts(SourceBatch)) =>
    /\ phases[2][2]
    /\ Len(transformed_data) = Len(SourceBatch)
    /\ \A i \in 1..Len(SourceBatch) : transformed_data[i] = SourceBatch[i]
    /\ data = SourceBatch

\* A batch of two different records went through.
C6_Witness ==
  /\ phases = SubSeq(AllPhasesOk, 1, 2)
  /\ data = <<ObjA1, ObjA2>>
  /\ transformed_data = <<ObjA1, ObjA2>>

\* [{"trip_id": "t1", "miles": 4.2}], pretty-printed.
TripPretty ==
  <<"[", NL, SP, SP, "{", NL, SP, SP, SP, SP, "\"trip_id\"", ":", SP, "\"t1\"",
    ",", NL, SP, SP, SP, SP, "\"miles\"", ":", SP, "4.2", NL, SP, SP, "}",
    NL, "]">>

\* C7: two successful runs that read the same source content leave the same
\* bytes at the destination; and after a successful run the destination is
\* the pretty-printed array of the batch extracted from the source.
C7_Idempotent ==
  /\ \A i, j \in 1..Len(history) :
       (i < j /\ history[i].status = 0 /\ history[j].status = 0
        /\ history[i].src = history[j].src)
         => history[i].store[EnvDstLoc] = history[j].store[EnvDstLoc]
  /\ (pc = "exited" /\ exit_status = 0) =>
       /\ store[DstLoc] = Blob(JsonDumps(SourceBatch))
       /\ src_seen.body = TripText => store[DstLoc].body = TripPretty

\* The trip document was run twice, to the same result.
C7_Witness ==
  /\ Len(history) = 2
  /\ history[1].status = 0
  /\ history[2].status = 0
  /\ history[1].src = Blob(TripText)
  /\ history[2].src = Blob(TripText)
  /\ history[2].store[EnvDstLoc] = Blob(TripPretty)

\* The five required fields of a Config are all non-empty.
FieldsFilled(cfg) ==
  \A f \in {cfg.aws_region, cfg.source_bucket, cfg.source_key,
            cfg.destination_bucket, cfg.destination_key} :
    f \notin {Unset, ""}
\* The spellings drawn that are, whatever their case, one of the five levels.
LevelRecognised(level) == level \in {"INFO", "debug", "Warning"}
\* The messages that name a blank field.
BlankMessages(cfg) ==
  (IF cfg.aws_region = "" THEN {"AWS region cannot be empty"} ELSE {})
  \cup (IF cfg.source_bucket = "" THEN {"Source bucket cannot be empty"} ELSE {})
  \cup (IF cfg.source_key = "" THEN {"Source key cannot be empty"} ELSE {})
  \cup (IF cfg.destination_bucket = ""
        THEN {"Destination bucket cannot be empty"} ELSE {})
  \cup (IF cfg.destination_key = ""
        THEN {"Destination key cannot be empty"} ELSE {})
FromEnvRefused ==
  /\ pc = "exited"
  /\ err.kind = "ConfigurationError"
  /\ Len(err.msg) >= 1
  /\ err.msg[1] = "Missing required environment variables: "

\* C8: from_env refuses exactly the environments in which a required
\* variable is unset or empty; validate accepts exactly the configurations
\* whose five required fields are non-empty and whose log level is, in any
\* case, one of the five, and names the offending field otherwise; so the
\* pipeline only ever sees such a configuration.
C8_Config ==
  /\ pc \in {"exited", "configured", "logging", "client", "extract",
             "transform", "load", "ran"} =>
       /\ FromEnvRefused <=>
            \E i \in 1..Len(RequiredVars) : env[RequiredVars[i]] \in {Unset, ""}
       /\ FromEnvRefused =>
            \A i \in 1..Len(RequiredVars) :
              env[RequiredVars[i]] \in {Unset, ""}
                <=> RequiredVars[i] \in Range(err.msg)
       /\ (~FromEnvRefused /\ ~LevelRecognised(config.log_level)) =>
            /\ pc = "exited"
            /\ err.kind = "ConfigurationError"
            /\ err.msg[1] = "Invalid log level: "
  /\ pc \in {"valid", "invalid"} =>
       /\ pc = "valid" <=>
            FieldsFilled(config) /\ LevelRecognised(config.log_level)
       /\ pc = "invalid" =>
            /\ err.kind = "ConfigurationError"
            /\ IF FieldsFilled(config)
               THEN err.msg[1] = "Invalid log level: "
                    /\ err.msg[2] = config.log_level
               ELSE err.msg[1] \in BlankMessages(config)
  /\ pc \in {"configured", "logging", "client", "extract", "transform",
             "load", "ran"} =>
       FieldsFilled(config) /\ LevelRecognised(config.log_level)

\* validate refused a Config whose source key alone is blank, naming it.
C8_Witness ==
  /\ pc = "invalid"
  /\ config.source_key = ""
  /\ BlankMessages(config) = {"Source key cannot be empty"}
  /\ err = Exc("ConfigurationError", <<"Source key cannot be empty">>)

\* C9: object_exists returns true when the head call succeeds, false only
\* when the remote reports not-found, and raises S3Error, and nothing else,
\* on every other failure.
C9_ExistsContract ==
  gw.op = "object_exists" =>
    /\ (gw.fault = "none" /\ store[<<gw.bucket, gw.key>>].present) =>
         gw.returned /\ gw.value
    /\ (gw.returned /\ ~gw.value) =>
         gw.fault = "none" /\ ~store[<<gw.bucket, gw.key>>].present
    /\ gw.fault /= "none" => ~gw.returned /\ gw.err.kind = "S3Error"

\* C10: a failed run leaves the object store as it found it: no write is
\* made when Extract or Transform fails, and the destination at any moment
\* holds what it held before the run or the whole serialized batch.
C10_FailedRunWritesNothing ==
  /\ (pc = "exited" /\ exit_status = 1) => store = store0
  /\ (PhaseFailed /\ phases[Len(phases)][1] \in {"extract", "transform"}) =>
       "write_object" \notin Range(calls)
  /\ store /= store0 =>
       /\ phases = AllPhasesOk
       /\ store = [store0 EXCEPT ![DstLoc] = Blob(JsonDumps(transformed_data))]

\* Load failed and the destination still holds what it held.
C10_Witness ==
  /\ pc = "exited"
  /\ exit_status = 1
  /\ phases = <<<<"extract", TRUE>>, <<"transform", TRUE>>, <<"load", FALSE>>>>
  /\ store0[DstLoc] = Blob(OldText)
  /\ store[DstLoc] = Blob(OldText)
  /\ transformed_data /= <<>>
====
